---- MODULE Spec2Model ----
(***************************************************************************)
(* FleetGuard: the dashboard's fleet aggregation and alert latching        *)
(* (processFleetData), the acknowledgment reducer of the Dashboard         *)
(* component, and the /api/siren command handler.                          *)
(*                                                                         *)
(* JavaScript values are written as follows.                               *)
(*   - a value that may be absent carries its type: "undefined", "null",   *)
(*     "string", "object";                                                 *)
(*   - the alert field is a tagged string: "bool:true", "bool:false",      *)
(*     "str:Sleeping", "str:true", "str:Over Speed", "null";               *)
(*   - telemetry timestamps are whole seconds;                             *)
(*   - Date.now() is the variable now, in milliseconds; a command          *)
(*     timestamp is held in thousandths of a second, so that               *)
(*     Date.now() / 1000 (a fraction of a second) is exact.                *)
(***************************************************************************)
EXTENDS Integers, Sequences, FiniteSets, TLC

VARIABLES
    now,            \* Date.now(), milliseconds
    acknowledged,   \* Dashboard useReducer state: vehicleId -> expiry
    ackedAt,        \* Date.now() of the last ACKNOWLEDGE of each vehicle, -1 if none
    nextCleanup,    \* when the ackCleanupInterval timer fires next
    data,           \* Dashboard useState "data": the array handed to processFleetData
    view,           \* useMemo value: processFleetData(data), "unrendered" before it ran
    sirenCommands,  \* the siren_commands collection, in insertion order
    nextId,         \* the next _id the collection assigns
    lastReq,        \* the request the /api/siren handler served last
    lastRes,        \* the response it gave
    notification,   \* Dashboard useState "notification"
    fetched,        \* the POST /api/siren requests handleVehicleControl has made
    req,            \* the POST request an API handler is serving, and how far it got
    res,            \* the response the handler gave to req, status 0 before it answers
    telemetry,      \* the "data" collection, in insertion order
    gpsUpdates,     \* the "gps_updates" collection, in insertion order
    mounted,        \* whether the Dashboard is mounted (its intervals are set)
    polls,          \* the fetchData calls made so far, each with how far it got
    nextPoll,       \* when the fetch interval fires next
    shownPoll       \* which fetchData call delivered the array in "data", 0 if none

vars == <<now, acknowledged, ackedAt, nextCleanup, data, view, sirenCommands, nextId,
          lastReq, lastRes, notification, fetched, req, res, telemetry, gpsUpdates,
          mounted, polls, nextPoll, shownPoll>>

ackVars == <<acknowledged, ackedAt, nextCleanup>>
aggVars == <<data, view>>
cmdVars == <<sirenCommands, nextId, lastReq, lastRes, notification, fetched>>
reqVars == <<req, res, telemetry, gpsUpdates>>
pollVars == <<mounted, polls, nextPoll, shownPoll>>

----------------------------------------------------------------------------
(* Bounds of the model *)

MaxBatch == 3          \* longest array handed to processFleetData
MaxCleanups == 62      \* the clock stops after this many periods of the cleanup timer
MaxCommands == 2       \* most records the siren_commands collection holds

----------------------------------------------------------------------------
(* processFleetData *)

Vehicles == {"v1", "v2"}

AlertWindow == 300
AckDuration == 5 * 60 * 1000
CleanupPeriod == 5000
HistoryLength == 30
SecondsPerDay == 24 * 60 * 60

isAlertRecord_NoStringTrue(record) ==
    \/ record.alert = "bool:true"
    \/ record.alert = "str:Sleeping"

\* record.alert === true || record.alert === "Sleeping" || record.alert === "true"
isAlertRecord(record) ==
    \/ record.alert = "bool:true"
    \/ record.alert = "str:Sleeping"
    \/ record.alert = "str:true"

\* r.alert === true || r.alert === "Sleeping"  (the historical counter and the chart)
isAlert(r) ==
    \/ r.alert = "bool:true"
    \/ r.alert = "str:Sleeping"

\* rawData.sort((a, b) => a.timestamp - b.timestamp): Array.prototype.sort is
\* stable, so record i goes after every record the comparator puts before it and
\* after every earlier record it compares equal to
SortByTimestamp(rawData) ==
    LET place(i) ==
            1 + Cardinality({j \in DOMAIN rawData :
                               \/ rawData[j].timestamp - rawData[i].timestamp < 0
                               \/ /\ rawData[j].timestamp - rawData[i].timestamp = 0
                                  /\ j < i})
    IN  [k \in 1..Len(rawData) |->
            rawData[CHOOSE i \in DOMAIN rawData : place(i) = k]]

\* First pass: sortedData.forEach writes lastAlertTimes[vehicleId] = timestamp at
\* every alert record, so each key ends with the timestamp of its last alert record
LastAlertTimes(sortedData) ==
    LET alerts == {i \in DOMAIN sortedData : isAlertRecord(sortedData[i])}
        lastOf(v) == CHOOSE i \in alerts :
                        /\ sortedData[i].vehicleId = v
                        /\ \A j \in alerts : sortedData[j].vehicleId = v => j <= i
    IN  [v \in {sortedData[i].vehicleId : i \in alerts} |->
            sortedData[lastOf(v)].timestamp]

\* lastAlertTimes[record.vehicleId] || 0
LastAlertOrZero(lastAlertTimes, vehicleId) ==
    IF vehicleId \in DOMAIN lastAlertTimes /\ lastAlertTimes[vehicleId] # 0
    THEN lastAlertTimes[vehicleId]
    ELSE 0

IsDigit(c) == c \in {"0", "1", "2", "3", "4", "5", "6", "7", "8", "9"}

RECURSIVE OnlyDigits(_)
OnlyDigits(s) ==
    IF s = <<>> THEN <<>>
    ELSE IF IsDigit(Head(s)) THEN <<Head(s)>> \o OnlyDigits(Tail(s))
         ELSE OnlyDigits(Tail(s))

RECURSIVE PadEnd(_, _, _)
PadEnd(s, n, c) == IF Len(s) >= n THEN s ELSE PadEnd(Append(s, c), n, c)

\* `+880 17${id.replace(/\D/g, "").padEnd(8, "0").slice(0, 8)}`
driverPhone(id) ==
    <<"+", "8", "8", "0", " ", "1", "7">> \o SubSeq(PadEnd(OnlyDigits(id), 8, "0"), 1, 8)

\* new Date(timestamp * 1000).toLocaleTimeString(): the time of day, to the second
toLocaleTimeString(timestamp) == timestamp % SecondsPerDay

\* record.driver.id.replace(...) throws a TypeError unless driver is an object
\* whose id is a string
DriverIdThrows(record) ==
    \/ record.driver.type \in {"undefined", "null"}
    \/ record.driver.id.type # "string"

\* secondsSinceAlert < 300
Latched_Inclusive(secondsSinceAlert) == secondsSinceAlert <= AlertWindow

Latched(secondsSinceAlert) == secondsSinceAlert < AlertWindow

\* the latch measured against the record's own timestamp
VehicleEntry_OwnClock(record, lastAlertTimes, latestSystemTimestamp) ==
    LET lastAlert == LastAlertOrZero(lastAlertTimes, record.vehicleId)
        secondsSinceAlert == record.timestamp - lastAlert
    IN  [vehicleId |-> record.vehicleId,
         timestamp |-> record.timestamp,
         alert |-> record.alert,
         speed |-> record.speed,
         gps |-> record.gps,
         driver |-> record.driver,
         formattedTime |-> toLocaleTimeString(record.timestamp),
         isDrowsy |-> isAlertRecord(record) \/ Latched(secondsSinceAlert),
         secondsSinceAlert |-> secondsSinceAlert,
         driverPhone |-> driverPhone(record.driver.id.chars)]

\* the value vehicleMap.set stores for one record
VehicleEntry(record, lastAlertTimes, latestSystemTimestamp) ==
    LET lastAlert == LastAlertOrZero(lastAlertTimes, record.vehicleId)
        secondsSinceAlert == latestSystemTimestamp - lastAlert
    IN  [vehicleId |-> record.vehicleId,
         timestamp |-> record.timestamp,
         alert |-> record.alert,
         speed |-> record.speed,
         gps |-> record.gps,
         driver |-> record.driver,
         formattedTime |-> toLocaleTimeString(record.timestamp),
         isDrowsy |-> isAlertRecord(record) \/ Latched(secondsSinceAlert),
         secondsSinceAlert |-> secondsSinceAlert,
         driverPhone |-> driverPhone(record.driver.id.chars)]

\* the first vehicleMap.set of a vehicle wins
BuildVehicleMap_FirstWrite(sortedData, lastAlertTimes, latestSystemTimestamp) ==
    LET ids == {sortedData[i].vehicleId : i \in DOMAIN sortedData}
        firstOf(v) == CHOOSE i \in DOMAIN sortedData :
                         /\ sortedData[i].vehicleId = v
                         /\ \A j \in DOMAIN sortedData :
                               sortedData[j].vehicleId = v => i <= j
        key(k) == CHOOSE v \in ids :
                     Cardinality({w \in ids : firstOf(w) <= firstOf(v)}) = k
    IN  [k \in 1..Cardinality(ids) |->
            VehicleEntry(sortedData[firstOf(key(k))], lastAlertTimes,
                         latestSystemTimestamp)]

\* Second pass: sortedData.forEach(record => vehicleMap.set(record.vehicleId, ...))
\* and Array.from(vehicleMap.values()). Map keeps a key at the place of its first
\* set and the value of its last set.
BuildVehicleMap(sortedData, lastAlertTimes, latestSystemTimestamp) ==
    LET ids == {sortedData[i].vehicleId : i \in DOMAIN sortedData}
        firstOf(v) == CHOOSE i \in DOMAIN sortedData :
                         /\ sortedData[i].vehicleId = v
                         /\ \A j \in DOMAIN sortedData :
                               sortedData[j].vehicleId = v => i <= j
        lastOf(v) == CHOOSE i \in DOMAIN sortedData :
                        /\ sortedData[i].vehicleId = v
                        /\ \A j \in DOMAIN sortedData :
                              sortedData[j].vehicleId = v => j <= i
        key(k) == CHOOSE v \in ids :
                     Cardinality({w \in ids : firstOf(w) <= firstOf(v)}) = k
    IN  [k \in 1..Cardinality(ids) |->
            VehicleEntry(sortedData[lastOf(key(k))], lastAlertTimes,
                         latestSystemTimestamp)]

\* v.speed || 0, for a speed that is a number
SpeedOrZero(v) == IF v.speed = 0 THEN 0 ELSE v.speed

RECURSIVE SumSpeed(_)
SumSpeed(uniqueVehicles) ==
    IF uniqueVehicles = <<>> THEN 0
    ELSE SpeedOrZero(Head(uniqueVehicles)) + SumSpeed(Tail(uniqueVehicles))

\* (totalSpeed / totalVehicles).toFixed(0): the nearest integer, halves upwards,
\* as a string of digits
toFixed0(totalSpeed, totalVehicles) ==
    [type |-> "string",
     digits |-> (2 * totalSpeed + totalVehicles) \div (2 * totalVehicles)]

\* Array.prototype.slice(-n)
SliceLast_First(s, n) == IF Len(s) <= n THEN s ELSE SubSeq(s, 1, n)

\* Array.prototype.slice(-n)
SliceLast(s, n) == IF Len(s) <= n THEN s ELSE SubSeq(s, Len(s) - n + 1, Len(s))

HistoryPoint(d) ==
    [time |-> toLocaleTimeString(d.timestamp),
     speed |-> d.speed,
     isAlert |-> IF isAlert(d) THEN 1 ELSE 0]

processFleetData(rawData) ==
    IF Len(rawData) = 0
    THEN [completion |-> "return", stats |-> <<>>, uniqueVehicles |-> <<>>,
          history |-> <<>>]
    ELSE IF \E i \in DOMAIN rawData : DriverIdThrows(rawData[i])
    THEN [completion |-> "TypeError"]
    ELSE
    LET sortedData == SortByTimestamp(rawData)
        latestSystemTimestamp == sortedData[Len(sortedData)].timestamp
        lastAlertTimes == LastAlertTimes(sortedData)
        uniqueVehicles ==
            BuildVehicleMap(sortedData, lastAlertTimes, latestSystemTimestamp)
        totalVehicles == Len(uniqueVehicles)
        drowsinessCount ==
            Cardinality({i \in DOMAIN uniqueVehicles : uniqueVehicles[i].isDrowsy})
        totalSpeed == SumSpeed(uniqueVehicles)
        avgSpeed == IF totalVehicles > 0 THEN toFixed0(totalSpeed, totalVehicles)
                    ELSE [type |-> "number", digits |-> 0]
        totalHistoricalAlerts ==
            Cardinality({i \in DOMAIN sortedData : isAlert(sortedData[i])})
    IN  [completion |-> "return",
         stats |-> [totalVehicles |-> totalVehicles,
                    drowsinessCount |-> drowsinessCount,
                    avgSpeed |-> avgSpeed,
                    totalHistoricalAlerts |-> totalHistoricalAlerts],
         uniqueVehicles |-> uniqueVehicles,
         history |-> SliceLast([i \in DOMAIN sortedData |-> HistoryPoint(sortedData[i])],
                               HistoryLength)]

----------------------------------------------------------------------------
(* pages/api/siren.js and the Dashboard's handleVehicleControl *)

Undefined == "<undefined>"
Null == "<null>"

\* a number of seconds with its thousandths; sec = -1 stands for an absent value
NoTime == [sec |-> -1, frac |-> 0]

\* Date.now() / 1000
DateNowOver1000(dateNow) == [sec |-> dateNow \div 1000, frac |-> dateNow % 1000]

\* Math.floor(Date.now() / 1000)
FloorDateNowOver1000(dateNow) == [sec |-> dateNow \div 1000, frac |-> 0]

Millis(t) == t.sec * 1000 + t.frac

NoBody ==
    [vehicleId |-> Undefined, command |-> Undefined, driver |-> Undefined,
     timestamp |-> NoTime]

NoNotification == [action |-> "none", vehicleId |-> "none", msg |-> "null", type |-> "null"]

\* !x for a string or an absent value
Falsy(x) == x \in {Undefined, Null, ""}

allowedCommands == <<"KILL_ENGINE", "TRIGGER_ALARM", "RESET">>

\* allowedCommands.includes(command)
Includes(list, x) == \E i \in DOMAIN list : list[i] = x

\* const timestamp = Date.now() / 1000, whatever the body carries
StampTime_FromBody(body, dateNow) ==
    IF body.timestamp # NoTime THEN body.timestamp ELSE DateNowOver1000(dateNow)

StampTime(body, dateNow) == DateNowOver1000(dateNow)

\* the payload handed to insertOne
Payload(body, dateNow) ==
    [vehicleId |-> body.vehicleId,
     command |-> body.command,
     driver |-> IF Falsy(body.driver) THEN Null ELSE body.driver,
     timestamp |-> StampTime(body, dateNow),
     status |-> "PENDING"]

\* the validation of the POST branch: "ok", or the message of the 400 response
Validate_NoAllowList(body) ==
    IF Falsy(body.vehicleId) \/ Falsy(body.command)
    THEN "vehicleId and command are required."
    ELSE "ok"

Validate(body) ==
    IF Falsy(body.vehicleId) \/ Falsy(body.command)
    THEN "vehicleId and command are required."
    ELSE IF ~Includes(allowedCommands, body.command)
    THEN "Invalid command. Allowed: KILL_ENGINE, TRIGGER_ALARM, RESET"
    ELSE "ok"

\* insertOne stores the payload under a fresh _id
Stored(payload, id) ==
    [_id |-> id, vehicleId |-> payload.vehicleId, command |-> payload.command,
     driver |-> payload.driver, timestamp |-> payload.timestamp,
     status |-> payload.status]

\* the 201 response
Created(insertedId) ==
    [status |-> 201,
     json |-> [message |-> "Siren command stored successfully",
               insertedId |-> insertedId]]

InternalServerError == [status |-> 500, json |-> [message |-> "Internal Server Error"]]

\* the handler threw before its try block: the framework answers 500
UncaughtError == [status |-> 500, json |-> [message |-> "uncaught"]]

\* the new command takes the place of the log
SirenPost_Replaces(body, connect, insert) ==
    /\ lastReq' = [method |-> "POST", body |-> body]
    /\ IF connect = "rejected"
       THEN /\ lastRes' = UncaughtError
            /\ UNCHANGED <<sirenCommands, nextId>>
       ELSE IF Validate(body) # "ok"
       THEN /\ lastRes' = [status |-> 400, json |-> [message |-> Validate(body)]]
            /\ UNCHANGED <<sirenCommands, nextId>>
       ELSE IF insert = "rejected"
       THEN /\ lastRes' = InternalServerError
            /\ UNCHANGED <<sirenCommands, nextId>>
       ELSE /\ sirenCommands' = <<Stored(Payload(body, now), nextId)>>
            /\ nextId' = nextId + 1
            /\ lastRes' = Created(nextId)

\* POST /api/siren. connect: whether await clientPromise resolves; insert: whether
\* insertOne resolves.
SirenPost(body, connect, insert) ==
    /\ lastReq' = [method |-> "POST", body |-> body]
    /\ IF connect = "rejected"
       THEN /\ lastRes' = UncaughtError
            /\ UNCHANGED <<sirenCommands, nextId>>
       ELSE IF Validate(body) # "ok"
       THEN /\ lastRes' = [status |-> 400, json |-> [message |-> Validate(body)]]
            /\ UNCHANGED <<sirenCommands, nextId>>
       ELSE IF insert = "rejected"
       THEN /\ lastRes' = InternalServerError
            /\ UNCHANGED <<sirenCommands, nextId>>
       ELSE /\ sirenCommands' = Append(sirenCommands, Stored(Payload(body, now), nextId))
            /\ nextId' = nextId + 1
            /\ lastRes' = Created(nextId)

\* the orders find().sort({ timestamp: -1 }) may return: descending by timestamp,
\* records of equal timestamp in any order
SortedDescending(coll) ==
    {[i \in DOMAIN coll |-> coll[p[i]]] :
        p \in {q \in [DOMAIN coll -> DOMAIN coll] :
                 /\ \A a, b \in DOMAIN coll : q[a] = q[b] => a = b
                 /\ \A a, b \in DOMAIN coll :
                       a < b => Millis(coll[q[a]].timestamp) >= Millis(coll[q[b]].timestamp)}}

CommandLimit == 20

\* .limit(20)
Limit(list, n) == IF Len(list) <= n THEN list ELSE SubSeq(list, 1, n)

\* GET /api/siren
SirenGet(connect, find) ==
    /\ lastReq' = [method |-> "GET", body |-> NoBody]
    /\ UNCHANGED <<sirenCommands, nextId>>
    /\ IF connect = "rejected" THEN lastRes' = UncaughtError
       ELSE IF find = "rejected" THEN lastRes' = InternalServerError
       ELSE \E commands \in SortedDescending(sirenCommands) :
               lastRes' = [status |-> 200, json |-> Limit(commands, CommandLimit)]

\* any other method
SirenOther(method, connect) ==
    /\ lastReq' = [method |-> method, body |-> NoBody]
    /\ UNCHANGED <<sirenCommands, nextId>>
    /\ IF connect = "rejected" THEN lastRes' = UncaughtError
       ELSE lastRes' = [status |-> 405,
                        json |-> [message |-> "Method Not Allowed",
                                  allow |-> <<"POST", "GET">>]]

Outcomes == {"resolved", "rejected"}

\* the bodies clients of the API send
ClientBodies ==
    [vehicleId : {"BUS12"},
     command : {"KILL_ENGINE", "TRIGGER_ALARM", "RESET", "HONK", Undefined},
     driver : {Undefined}, timestamp : {NoTime, [sec |-> 0, frac |-> 0]}]
    \cup
    [vehicleId : {Undefined, ""}, command : {"TRIGGER_ALARM"},
     driver : {Undefined}, timestamp : {NoTime}]
    \cup
    [vehicleId : {"BUS12"}, command : {"RESET"},
     driver : {"DRV007"}, timestamp : {NoTime}]

\* a request to /api/siren from any client
ApiPost ==
    /\ Len(sirenCommands) < MaxCommands
    /\ \E body \in ClientBodies, connect \in Outcomes, insert \in Outcomes :
          SirenPost(body, connect, insert)
    /\ UNCHANGED <<now, ackVars, aggVars, pollVars, reqVars, notification, fetched>>

ApiGet ==
    /\ \E connect \in Outcomes, find \in Outcomes : SirenGet(connect, find)
    /\ UNCHANGED <<now, ackVars, aggVars, pollVars, reqVars, notification, fetched>>

ApiOther ==
    /\ \E method \in {"DELETE", "PUT"}, connect \in Outcomes : SirenOther(method, connect)
    /\ UNCHANGED <<now, ackVars, aggVars, pollVars, reqVars, notification, fetched>>

\* the message handleVehicleControl builds for an action
ControlMessage(action) ==
    CASE action = "KILL_ENGINE" -> "COMMAND SENT: Cutting Engine Power"
      [] action = "TRIGGER_ALARM" -> "COMMAND SENT: Triggering Remote Siren"
      [] action = "RESET" -> "SYSTEM: Resetting Sensors"
      [] action = "CALL" -> "DIALING: Connecting to Driver"
      [] OTHER -> "Command Sent"

\* showNotification(msg, action === "KILL_ENGINE" ? "danger" : "info")
Notice(action, vehicleId) ==
    [action |-> action, vehicleId |-> vehicleId, msg |-> ControlMessage(action),
     type |-> IF action = "KILL_ENGINE" THEN "danger" ELSE "info"]

ControlVehicles == {"BUS12"}
ControlActions == {"KILL_ENGINE", "TRIGGER_ALARM", "RESET"}

\* handleVehicleControl(action, vehicleId): only TRIGGER_ALARM posts to /api/siren;
\* network: whether the request reaches the server
handleVehicleControl(action, vehicleId, network, connect, insert) ==
    /\ IF action = "TRIGGER_ALARM"
       THEN /\ fetched' = fetched \cup {[command |-> "TRIGGER_ALARM", vehicleId |-> vehicleId]}
            /\ IF network = "rejected"
               THEN UNCHANGED <<sirenCommands, nextId, lastReq, lastRes>>
               ELSE SirenPost([vehicleId |-> vehicleId,
                               command |-> "TRIGGER_ALARM",
                               driver |-> Undefined,
                               timestamp |-> FloorDateNowOver1000(now)],
                              connect, insert)
       ELSE UNCHANGED <<fetched, sirenCommands, nextId, lastReq, lastRes>>
    /\ notification' = Notice(action, vehicleId)

ClickControl ==
    /\ Len(sirenCommands) < MaxCommands
    /\ \E action \in ControlActions \cup {"CALL"}, vehicleId \in ControlVehicles,
          network \in Outcomes, connect \in Outcomes, insert \in Outcomes :
          handleVehicleControl(action, vehicleId, network, connect, insert)
    /\ UNCHANGED <<now, ackVars, aggVars, pollVars, reqVars>>

\* setTimeout(() => setNotification(null), 4000)
ClearNotification ==
    /\ notification # NoNotification
    /\ notification' = NoNotification
    /\ UNCHANGED <<now, ackVars, aggVars, pollVars, reqVars, sirenCommands, nextId, lastReq, lastRes, fetched>>

ServerInstants == {0, 500, 1000}

\* the clock moves on to a later instant
ServerTick ==
    /\ \E t \in ServerInstants : t > now /\ now' = t
    /\ UNCHANGED <<ackVars, aggVars, pollVars, reqVars, cmdVars>>

----------------------------------------------------------------------------
(* The arrays the dashboard aggregates *)

Driver007 ==
    [type |-> "object",
     id |-> [type |-> "string", chars |-> <<"D", "R", "V", "0", "0", "7">>],
     name |-> "Karimul Driver"]

\* a record stored without driver: record.driver is undefined
NoDriver ==
    [type |-> "undefined", id |-> [type |-> "undefined", chars |-> <<>>], name |-> ""]

\* gps as /api/data stores it: { lat, lng }, two finite numbers
GpsKushtia == [lat |-> 23, lng |-> 89]
GpsDhaka == [lat |-> 24, lng |-> 90]

\* 1300 - 1001 = 299, 1300 - 1000 = 300, 1301 - 1000 = 301; 100 lies inside the
\* first 300 seconds
Timestamps == {100, 1000, 1001, 1300, 1301}

\* records that differ in vehicle, time and alert
LatchRecords ==
    [vehicleId : Vehicles, timestamp : Timestamps, alert : {"bool:true", "bool:false"},
     speed : {45}, gps : {GpsKushtia}, driver : {Driver007}]

\* the other alert labels, another speed, a record without driver
OtherRecords ==
    [vehicleId : {"v1"}, timestamp : {1000}, alert : {"str:Sleeping", "str:true"},
     speed : {45}, gps : {GpsKushtia}, driver : {Driver007}]
    \cup
    [vehicleId : {"v1"}, timestamp : {1250}, alert : {"bool:false"},
     speed : {0}, gps : {GpsKushtia}, driver : {Driver007}]
    \cup
    [vehicleId : {"v1"}, timestamp : {1301}, alert : {"str:Over Speed"},
     speed : {82}, gps : {GpsDhaka}, driver : {Driver007, NoDriver}]

Telemetry == LatchRecords \cup OtherRecords

Batches == UNION {[1..n -> Telemetry] : n \in 0..MaxBatch}

----------------------------------------------------------------------------
(* pages/api/data.js and pages/api/updatedgps.js: the ingestion of telemetry,
   and the steps of a POST handler between its awaits *)

\* JSON values of a body field
NumberValue(n) == [type |-> "number", num |-> n, chars |-> <<>>]
StringValue(chars) == [type |-> "string", num |-> 0, chars |-> chars]
NullValue == [type |-> "null", num |-> 0, chars |-> <<>>]
UndefinedValue == [type |-> "undefined", num |-> 0, chars |-> <<>>]

\* JS numbers
Finite(n) == [kind |-> "finite", num |-> n]
NaN == [kind |-> "NaN", num |-> 0]
Infinity == [kind |-> "Infinity", num |-> 0]

DigitValue(c) ==
    CASE c = "0" -> 0 [] c = "1" -> 1 [] c = "2" -> 2 [] c = "3" -> 3 [] c = "4" -> 4
      [] c = "5" -> 5 [] c = "6" -> 6 [] c = "7" -> 7 [] c = "8" -> 8 [] c = "9" -> 9

RECURSIVE DecimalValue(_)
DecimalValue(chars) ==
    IF chars = <<>> THEN 0
    ELSE 10 * DecimalValue(SubSeq(chars, 1, Len(chars) - 1))
         + DigitValue(chars[Len(chars)])

\* Number(x) for a JSON value or undefined; strings of digits, "" and "Infinity"
\* are the numeric strings told apart, every other string is NaN
ToNumber(x) ==
    CASE x.type = "number" -> Finite(x.num)
      [] x.type = "null" -> Finite(0)
      [] x.type = "undefined" -> NaN
      [] x.type = "string" ->
            IF \A i \in DOMAIN x.chars : IsDigit(x.chars[i])
            THEN Finite(DecimalValue(x.chars))
            ELSE IF x.chars = <<"I", "n", "f", "i", "n", "i", "t", "y">>
            THEN Infinity
            ELSE NaN

isFinite(n) == n.kind = "finite"

\* data.gps: an object with what its lat and lng read as, or absent
GpsObject(lat, lng) == [type |-> "object", lat |-> lat, lng |-> lng]
NoGps == [type |-> "undefined", lat |-> UndefinedValue, lng |-> UndefinedValue]

\* !data.timestamp
TimestampFalsy(t) == t = NoTime \/ Millis(t) = 0

\* POST /api/data: "ok", or the message of the 400 response
DataValidate_NoFiniteCheck(body) ==
    IF Falsy(body.vehicleId) \/ body.speed.type = "undefined" \/ body.gps.type # "object"
    THEN "Missing required vehicle data fields."
    ELSE "ok"

DataValidate(body) ==
    IF Falsy(body.vehicleId) \/ body.speed.type = "undefined" \/ body.gps.type # "object"
    THEN "Missing required vehicle data fields."
    ELSE IF ~isFinite(ToNumber(body.gps.lat)) \/ ~isFinite(ToNumber(body.gps.lng))
    THEN "Invalid GPS values."
    ELSE "ok"

\* POST /api/updatedgps: "ok", or the message of the 400 response
GpsValidate(body) ==
    IF Falsy(body.vehicleId) \/ body.gps.type # "object"
    THEN "Missing required fields: vehicleId, gps."
    ELSE IF ~isFinite(ToNumber(body.gps.lat)) \/ ~isFinite(ToNumber(body.gps.lng))
    THEN "Invalid GPS coordinate values."
    ELSE "ok"

\* console.warn("Driver information is missing or incomplete.")
DriverWarning(body) ==
    \/ body.driver.type = "undefined"
    \/ body.driver.id.type = "undefined"
    \/ body.driver.name = ""

\* data.gps = { lat, lng }; if (!data.timestamp) data.timestamp = Date.now() / 1000
\* the object handed to insertOne is the body with these two fields rewritten
IngestDocument(body, dateNow) ==
    [body EXCEPT
        !.gps = [lat |-> ToNumber(body.gps.lat), lng |-> ToNumber(body.gps.lng)],
        !.timestamp = IF TimestampFalsy(body.timestamp)
                      THEN DateNowOver1000(dateNow)
                      ELSE body.timestamp]

Endpoints == {"siren", "data", "updatedgps"}

\* the validation each handler runs before it writes
EndpointValidate(endpoint, body) ==
    CASE endpoint = "siren" -> Validate(body)
      [] endpoint = "data" -> DataValidate(body)
      [] endpoint = "updatedgps" -> GpsValidate(body)

\* the document each handler hands to insertOne
EndpointDocument(endpoint, body, dateNow) ==
    IF endpoint = "siren" THEN Payload(body, dateNow) ELSE IngestDocument(body, dateNow)

\* the message of each handler's 201 response
CreatedMessage(endpoint) ==
    CASE endpoint = "siren" -> "Siren command stored successfully"
      [] endpoint = "data" -> "Data saved successfully"
      [] endpoint = "updatedgps" -> "GPS data saved successfully"

NoResponse == [status |-> 0, json |-> [message |-> "none"]]

NoRequest ==
    [endpoint |-> "none", method |-> "none", body |-> NoBody, pc |-> "idle",
     connect |-> "none",
     insert |-> "none", attempts |-> 0, doc |-> NoBody, warned |-> FALSE]

\* most documents the three collections hold together
MaxStored == 2

StoredCount == Len(sirenCommands) + Len(telemetry) + Len(gpsUpdates)

\* bodies producers send to /api/data and /api/updatedgps
IngestBody(vehicleId, speed, gps, driver, timestamp) ==
    [vehicleId |-> vehicleId, speed |-> speed, gps |-> gps, driver |-> driver,
     timestamp |-> timestamp]

GpsInputs ==
    {NoGps,
     GpsObject(NumberValue(23), NumberValue(89)),
     GpsObject(StringValue(<<"2", "3">>), StringValue(<<"8", "9">>)),
     GpsObject(StringValue(<<"a", "b", "c">>), NumberValue(89)),
     GpsObject(NumberValue(23), UndefinedValue),
     GpsObject(NullValue, NumberValue(89)),
     GpsObject(NumberValue(23), StringValue(<<"I", "n", "f", "i", "n", "i", "t", "y">>)),
     GpsObject(StringValue(<<>>), NumberValue(89))}

IngestTimestamps == {NoTime, [sec |-> 0, frac |-> 0], [sec |-> 1000, frac |-> 0]}

IngestBodies ==
    {IngestBody(v, NumberValue(0), GpsObject(NumberValue(23), NumberValue(89)),
                Driver007, NoTime) : v \in {Undefined, "", "v1"}}
    \cup
    {IngestBody("v1", s, GpsObject(NumberValue(23), NumberValue(89)), Driver007,
                NoTime) : s \in {UndefinedValue, NumberValue(45)}}
    \cup
    {IngestBody("v1", NumberValue(0), g, Driver007, NoTime) : g \in GpsInputs}
    \cup
    {IngestBody("v1", NumberValue(45), GpsObject(NumberValue(23), NumberValue(89)),
                d, t) : d \in {Driver007, NoDriver}, t \in IngestTimestamps}

\* bodies clients send to /api/siren
SirenBodies ==
    [vehicleId : {"BUS12"}, command : {"TRIGGER_ALARM", "HONK"},
     driver : {Undefined}, timestamp : {NoTime}]

RequestBodies(endpoint) == IF endpoint = "siren" THEN SirenBodies ELSE IngestBodies

\* methods the handlers have no branch for
OtherMethods == {"DELETE", "PUT"}

\* the else branch answers without the Allow header
MethodNotAllowed_NoAllow ==
    [status |-> 405, json |-> [message |-> "Method Not Allowed", allow |-> <<>>]]

\* res.setHeader("Allow", ["POST", "GET"]); res.status(405).end(...)
MethodNotAllowed ==
    [status |-> 405,
     json |-> [message |-> "Method Not Allowed", allow |-> <<"POST", "GET">>]]

\* a request reaches a handler, which starts with: await clientPromise
Arrive ==
    /\ req.pc \in {"idle", "responded"}
    /\ StoredCount < MaxStored
    /\ \E endpoint \in Endpoints :
          \/ \E body \in RequestBodies(endpoint) :
                req' = [NoRequest EXCEPT !.endpoint = endpoint, !.method = "POST",
                                         !.body = body,
                                         !.pc = "connecting", !.connect = "pending"]
          \/ \E method \in OtherMethods :
                req' = [NoRequest EXCEPT !.endpoint = endpoint, !.method = method,
                                         !.pc = "connecting", !.connect = "pending"]
    /\ res' = NoResponse
    /\ UNCHANGED <<now, ackVars, aggVars, pollVars, cmdVars, telemetry, gpsUpdates>>

\* the store settles the connection promise
StoreConnects ==
    /\ req.connect = "pending"
    /\ \E outcome \in Outcomes : req' = [req EXCEPT !.connect = outcome]
    /\ UNCHANGED <<now, ackVars, aggVars, pollVars, cmdVars, res, telemetry, gpsUpdates>>

\* the handler resumes after await clientPromise: an exception there is outside the
\* try block; a method without a branch gets 405; a POST is validated, its gps and
\* timestamp rewritten and insertOne called
HandlerAfterConnect ==
    /\ req.pc = "connecting"
    /\ req.connect \in Outcomes
    /\ IF req.connect = "rejected"
       THEN /\ res' = UncaughtError
            /\ req' = [req EXCEPT !.pc = "responded"]
       ELSE IF req.method # "POST"
       THEN /\ res' = MethodNotAllowed
            /\ req' = [req EXCEPT !.pc = "responded"]
       ELSE IF EndpointValidate(req.endpoint, req.body) # "ok"
       THEN /\ res' = [status |-> 400,
                       json |-> [message |-> EndpointValidate(req.endpoint, req.body)]]
            /\ req' = [req EXCEPT !.pc = "responded"]
       ELSE /\ res' = res
            /\ req' = [req EXCEPT
                          !.pc = "inserting",
                          !.insert = "pending",
                          !.attempts = @ + 1,
                          !.doc = EndpointDocument(req.endpoint, req.body, now),
                          !.warned = req.endpoint = "data" /\ DriverWarning(req.body)]
    /\ UNCHANGED <<now, ackVars, aggVars, pollVars, cmdVars, telemetry, gpsUpdates>>

\* the store settles insertOne: resolved means the document is in the collection
\* under a fresh _id
StoreInserts ==
    /\ req.insert = "pending"
    /\ \E outcome \in Outcomes :
          /\ req' = [req EXCEPT !.insert = outcome]
          /\ IF outcome = "rejected"
             THEN UNCHANGED <<sirenCommands, telemetry, gpsUpdates, nextId>>
             ELSE /\ nextId' = nextId + 1
                  /\ CASE req.endpoint = "siren" ->
                            /\ sirenCommands' = Append(sirenCommands, Stored(req.doc, nextId))
                            /\ UNCHANGED <<telemetry, gpsUpdates>>
                       [] req.endpoint = "data" ->
                            /\ telemetry' = Append(telemetry, [_id |-> nextId, doc |-> req.doc])
                            /\ UNCHANGED <<sirenCommands, gpsUpdates>>
                       [] req.endpoint = "updatedgps" ->
                            /\ gpsUpdates' = Append(gpsUpdates, [_id |-> nextId, doc |-> req.doc])
                            /\ UNCHANGED <<sirenCommands, telemetry>>
    /\ UNCHANGED <<now, ackVars, aggVars, pollVars, lastReq, lastRes, notification, fetched, res>>

\* a failed insertOne is tried once more
HandlerAfterInsert_Retry ==
    /\ req.pc = "inserting"
    /\ req.insert \in Outcomes
    /\ IF req.insert = "resolved"
       THEN /\ res' = [status |-> 201,
                       json |-> [message |-> CreatedMessage(req.endpoint),
                                 insertedId |-> nextId - 1]]
            /\ req' = [req EXCEPT !.pc = "responded"]
       ELSE IF req.attempts < 2
       THEN /\ res' = res
            /\ req' = [req EXCEPT !.insert = "pending", !.attempts = @ + 1]
       ELSE /\ res' = InternalServerError
            /\ req' = [req EXCEPT !.pc = "responded"]
    /\ UNCHANGED <<now, ackVars, aggVars, pollVars, cmdVars, telemetry, gpsUpdates>>

\* the handler resumes after await insertOne: 201 with the insertedId, or the
\* catch block's 500
HandlerAfterInsert ==
    /\ req.pc = "inserting"
    /\ req.insert \in Outcomes
    /\ IF req.insert = "resolved"
       THEN res' = [status |-> 201,
                    json |-> [message |-> CreatedMessage(req.endpoint),
                              insertedId |-> nextId - 1]]
       ELSE res' = InternalServerError
    /\ req' = [req EXCEPT !.pc = "responded"]
    /\ UNCHANGED <<now, ackVars, aggVars, pollVars, cmdVars, telemetry, gpsUpdates>>

\* setInterval(fetchData, 1000)
PollPeriod == 1000

InitOther ==
    /\ now = 0
    /\ mounted = TRUE
    /\ polls = <<>>
    /\ nextPoll = PollPeriod
    /\ shownPoll = 0
    /\ req = NoRequest
    /\ res = NoResponse
    /\ telemetry = <<>>
    /\ gpsUpdates = <<>>
    /\ acknowledged = <<>>
    /\ ackedAt = [v \in Vehicles |-> -1]
    /\ nextCleanup = CleanupPeriod
    /\ sirenCommands = <<>>
    /\ nextId = 1
    /\ lastReq = [method |-> "none", body |-> NoBody]
    /\ lastRes = [status |-> 0, json |-> [message |-> "none"]]
    /\ notification = NoNotification
    /\ fetched = {}

InitAgg ==
    /\ data \in Batches
    /\ view = [completion |-> "unrendered"]
    /\ InitOther

\* useMemo(() => processFleetData(data), [data])
Render ==
    /\ view.completion = "unrendered"
    /\ view' = processFleetData(data)
    /\ UNCHANGED <<now, data, ackVars, pollVars, cmdVars, reqVars>>

NextAgg == Render

SpecAgg == InitAgg /\ [][NextAgg]_vars

\* longest array aggregated for the history window (the window is HistoryLength)
MaxWindow == 32

WindowOrders == {"ascending", "descending", "equal", "interleaved"}
WindowFleets == {"one", "two"}

\* the i-th record of an array GET /api/data returned; its speed tells the
\* records apart
WindowRecord(order, fleet, i) ==
    [vehicleId |-> IF fleet = "two" /\ i % 2 = 0 THEN "v2" ELSE "v1",
     timestamp |-> CASE order = "ascending" -> 1000 + i
                     [] order = "descending" -> 2000 - i
                     [] order = "equal" -> 1000
                     [] order = "interleaved" -> 1000 + ((i * 7) % 11),
     alert |-> IF i % 4 = 0 THEN "bool:true" ELSE "bool:false",
     speed |-> i,
     gps |-> GpsKushtia,
     driver |-> Driver007]

Windows ==
    {[i \in 1..n |-> WindowRecord(order, fleet, i)] :
        n \in 0..MaxWindow, order \in WindowOrders, fleet \in WindowFleets}

InitHist ==
    /\ data \in Windows
    /\ view = [completion |-> "unrendered"]
    /\ InitOther

SpecHist == InitHist /\ [][NextAgg]_vars

----------------------------------------------------------------------------
(* The acknowledgment reducer of the Dashboard and the clock *)

\* a repeated acknowledge adds to the expiry the entry already has
Acknowledge_Stacking(state, vehicleId, dateNow) ==
    [v \in DOMAIN state \cup {vehicleId} |->
        IF v = vehicleId
        THEN (IF v \in DOMAIN state THEN state[v] ELSE dateNow) + AckDuration
        ELSE state[v]]

\* case "ACKNOWLEDGE": { ...state, [action.vehicleId]: Date.now() + 5 * 60 * 1000 }
Acknowledge(state, vehicleId, dateNow) ==
    [v \in DOMAIN state \cup {vehicleId} |->
        IF v = vehicleId THEN dateNow + AckDuration ELSE state[v]]

\* the filter keeps an entry that expires at this very instant
Cleanup_KeepsBoundary(state, dateNow) ==
    [v \in {w \in DOMAIN state : state[w] >= dateNow} |-> state[v]]

\* case "CLEANUP": the entries with expiry > Date.now()
Cleanup(state, dateNow) ==
    [v \in {w \in DOMAIN state : state[w] > dateNow} |-> state[v]]

ackReducer(state, action, dateNow) ==
    CASE action.type = "ACKNOWLEDGE" -> Acknowledge(state, action.vehicleId, dateNow)
      [] action.type = "CLEANUP" -> Cleanup(state, dateNow)
      [] OTHER -> state

\* the render's read acknowledged[v.vehicleId], taken as a condition: an absent
\* entry (undefined) and 0 are falsy, every other expiry is truthy
acknowledgedShown(vehicleId) ==
    vehicleId \in DOMAIN acknowledged /\ acknowledged[vehicleId] # 0

\* the instants the clock visits: every firing of the cleanup timer, and the first
\* milliseconds after the mount and after one acknowledgment duration
CleanupTimes == {k * CleanupPeriod : k \in 0..MaxCleanups}
Instants ==
    CleanupTimes \cup
    {t \in {1, 2, AckDuration + 1, AckDuration + 2, AckDuration + 3} :
        t <= MaxCleanups * CleanupPeriod}

\* both vehicles on the list, both drowsy
DrowsyFleet ==
    << [vehicleId |-> "v1", timestamp |-> 1300, alert |-> "bool:true",
        speed |-> 45, gps |-> GpsKushtia, driver |-> Driver007],
       [vehicleId |-> "v2", timestamp |-> 1301, alert |-> "str:Sleeping",
        speed |-> 45, gps |-> GpsKushtia, driver |-> Driver007] >>

InitAck ==
    /\ data = DrowsyFleet
    /\ view = processFleetData(DrowsyFleet)
    /\ InitOther

\* time passes up to the next instant; a cleanup that is due fires first
Tick ==
    /\ now < nextCleanup
    /\ \E t \in Instants :
          /\ t > now
          /\ \A u \in Instants : u > now => t <= u
          /\ now' = t
    /\ UNCHANGED <<ackVars, aggVars, pollVars, reqVars, cmdVars>>

\* the ACK button, rendered for v.isDrowsy && !acknowledged[v.vehicleId]
ClickAck(v) ==
    /\ mounted
    /\ view.completion = "return"
    /\ \E k \in DOMAIN view.uniqueVehicles :
          view.uniqueVehicles[k].vehicleId = v /\ view.uniqueVehicles[k].isDrowsy
    /\ ~acknowledgedShown(v)
    /\ acknowledged' =
          ackReducer(acknowledged, [type |-> "ACKNOWLEDGE", vehicleId |-> v], now)
    /\ ackedAt' = [ackedAt EXCEPT ![v] = now]
    /\ UNCHANGED <<now, nextCleanup, aggVars, pollVars, reqVars, cmdVars>>

\* the sweep chained behind the refresh: skipped while a fetch is outstanding
CleanupTimer_Chained ==
    /\ mounted
    /\ now = nextCleanup
    /\ acknowledged' =
          IF \E n \in DOMAIN polls : polls[n].phase \in {"pending", "served"}
          THEN acknowledged
          ELSE ackReducer(acknowledged, [type |-> "CLEANUP"], now)
    /\ nextCleanup' = nextCleanup + CleanupPeriod
    /\ UNCHANGED <<now, ackedAt, aggVars, pollVars, reqVars, cmdVars>>

\* setInterval(() => dispatch({ type: "CLEANUP" }), 5000)
CleanupTimer ==
    /\ mounted
    /\ now = nextCleanup
    /\ acknowledged' = ackReducer(acknowledged, [type |-> "CLEANUP"], now)
    /\ nextCleanup' = nextCleanup + CleanupPeriod
    /\ UNCHANGED <<now, ackedAt, aggVars, pollVars, reqVars, cmdVars>>

NextAck ==
    \/ Tick
    \/ \E v \in Vehicles : ClickAck(v)
    \/ CleanupTimer

SpecAck == InitAck /\ [][NextAck]_vars

\* the reducer on its own: any action dispatched at any instant, from the
\* initial state {} of useReducer
ReducerInstants ==
    {0, 1, AckDuration, AckDuration + 1, 2 * AckDuration, 2 * AckDuration + 1}

ReducerActions ==
    {[type |-> "ACKNOWLEDGE", vehicleId |-> v] : v \in Vehicles}
    \cup {[type |-> "CLEANUP", vehicleId |-> "none"],
          [type |-> "RESET", vehicleId |-> "none"]}

InitReducer ==
    /\ data = <<>>
    /\ view = processFleetData(<<>>)
    /\ InitOther

\* dispatch(action)
Dispatch ==
    /\ \E action \in ReducerActions :
          /\ acknowledged' = ackReducer(acknowledged, action, now)
          /\ ackedAt' = IF action.type = "ACKNOWLEDGE"
                        THEN [ackedAt EXCEPT ![action.vehicleId] = now]
                        ELSE ackedAt
    /\ UNCHANGED <<now, nextCleanup, aggVars, pollVars, reqVars, cmdVars>>

ReducerTick ==
    /\ \E t \in ReducerInstants : t > now /\ now' = t
    /\ UNCHANGED <<ackVars, aggVars, pollVars, reqVars, cmdVars>>

NextReducer ==
    \/ Dispatch
    \/ ReducerTick

SpecReducer == InitReducer /\ [][NextReducer]_vars

\* C21: at every instant before the latest acknowledge of a vehicle plus
\* AckDuration, whatever was dispatched before and since (acknowledges of this or
\* other vehicles, sweeps), the vehicle's entry is exactly that acknowledge time plus
\* AckDuration and the render's read reports it acknowledged.
C21_AcknowledgeSetsExpiry ==
    \A v \in Vehicles :
        ackedAt[v] >= 0 /\ now < ackedAt[v] + AckDuration =>
            /\ v \in DOMAIN acknowledged
            /\ acknowledged[v] = ackedAt[v] + AckDuration
            /\ acknowledgedShown(v)

\* C21 witness: v2 was acknowledged at 0 and swept at its expiry, v1 was
\* acknowledged at 1 and is still held with expiry 1 + AckDuration.
C21_Witness ==
    /\ now = AckDuration
    /\ ackedAt["v2"] = 0
    /\ "v2" \notin DOMAIN acknowledged
    /\ ackedAt["v1"] = 1
    /\ "v1" \in DOMAIN acknowledged
    /\ acknowledged["v1"] = 1 + AckDuration
    /\ acknowledgedShown("v1")

\* C22: the step of the cleanup timer keeps every entry with expiry > now, with
\* the same expiry, leaves no entry with expiry <= now and adds none.
C22_SweepRemovesExactlyExpired ==
    [][nextCleanup' # nextCleanup =>
          /\ \A v \in DOMAIN acknowledged :
                acknowledged[v] > now =>
                    v \in DOMAIN acknowledged' /\ acknowledged'[v] = acknowledged[v]
          /\ \A v \in DOMAIN acknowledged' :
                v \in DOMAIN acknowledged /\ acknowledged'[v] > now]_vars

\* C22 witness: the sweep at the very instant v1's entry expires has removed it
\* and kept v2's, which expires later.
C22_Witness ==
    /\ ackedAt["v1"] >= 0
    /\ now = ackedAt["v1"] + AckDuration
    /\ nextCleanup > now
    /\ "v1" \notin DOMAIN acknowledged
    /\ "v2" \in DOMAIN acknowledged
    /\ acknowledged["v2"] > now

\* C1: once more than AckDuration has passed since the last acknowledge of a
\* vehicle, the render's read of its acknowledged status reports "not acknowledged",
\* whether or not the cleanup has run since.
C1_ExpiredReadsUnacknowledged ==
    \A v \in Vehicles :
        ackedAt[v] >= 0 /\ now > ackedAt[v] + AckDuration => ~acknowledgedShown(v)

----------------------------------------------------------------------------
(* What the claims about aggregation speak of, stated on the input array *)

\* the raw alert values the data model calls truthy
TruthyAlert(alert) == alert \in {"bool:true", "str:Sleeping", "str:true"}

\* T_max: the greatest timestamp of the batch
TMax(batch) ==
    CHOOSE t \in {batch[i].timestamp : i \in DOMAIN batch} :
        \A i \in DOMAIN batch : batch[i].timestamp <= t

\* batch[i] is its vehicle's most recent record: the greatest timestamp, and among
\* equal timestamps the one that arrived last
IsMostRecent(batch, i) ==
    \A j \in DOMAIN batch :
        batch[j].vehicleId = batch[i].vehicleId =>
            \/ batch[j].timestamp < batch[i].timestamp
            \/ batch[j].timestamp = batch[i].timestamp /\ j <= i

HasAlert(batch, v) ==
    \E i \in DOMAIN batch : batch[i].vehicleId = v /\ TruthyAlert(batch[i].alert)

\* the greatest timestamp among the truthy-alert records of v
LastTruthyAlert(batch, v) ==
    LET ts == {batch[i].timestamp :
                 i \in {j \in DOMAIN batch :
                          batch[j].vehicleId = v /\ TruthyAlert(batch[j].alert)}}
    IN  CHOOSE t \in ts : \A u \in ts : u <= t

Returned == view.completion = "return"

\* the entry of vehicle v in uniqueVehicles reports isDrowsy = b
ReportsDrowsy(v, b) ==
    \E k \in DOMAIN view.uniqueVehicles :
        /\ view.uniqueVehicles[k].vehicleId = v
        /\ view.uniqueVehicles[k].isDrowsy = b

VehicleIds(batch) == {batch[i].vehicleId : i \in DOMAIN batch}

\* C24: whenever aggregation returns, the entry of every vehicle that has a
\* truthy-alert record reports secondsSinceAlert = T_max minus the greatest
\* timestamp among that vehicle's truthy-alert records, T_max being the greatest
\* timestamp of the whole batch.
C24_LatchMeasuredAgainstBatch ==
    Returned =>
        \A v \in VehicleIds(data) :
            HasAlert(data, v) =>
                \E k \in DOMAIN view.uniqueVehicles :
                    /\ view.uniqueVehicles[k].vehicleId = v
                    /\ view.uniqueVehicles[k].secondsSinceAlert =
                          TMax(data) - LastTruthyAlert(data, v)

\* C24 witness: a vehicle alerted, its own latest record is one second later and
\* carries no alert, and a record of another vehicle 301 seconds after the alert
\* releases its latch.
C24_Witness ==
    /\ Returned
    /\ \E a, b, c \in DOMAIN data :
          /\ data[a].vehicleId = data[b].vehicleId
          /\ data[c].vehicleId # data[a].vehicleId
          /\ TruthyAlert(data[a].alert)
          /\ ~TruthyAlert(data[b].alert)
          /\ data[b].timestamp - data[a].timestamp = 1
          /\ data[c].timestamp - data[a].timestamp = 301
          /\ \E k \in DOMAIN view.uniqueVehicles :
                /\ view.uniqueVehicles[k].vehicleId = data[a].vehicleId
                /\ view.uniqueVehicles[k].secondsSinceAlert = 301
                /\ ~view.uniqueVehicles[k].isDrowsy

\* C2: whenever aggregation returns, every vehicle whose most recent record has a
\* truthy raw alert (true, "Sleeping" or "true") is reported with isDrowsy = true.
C2_ActiveAlertIsDrowsy ==
    Returned =>
        \A i \in DOMAIN data :
            IsMostRecent(data, i) /\ TruthyAlert(data[i].alert)
                => ReportsDrowsy(data[i].vehicleId, TRUE)

\* C2 witness: a vehicle whose most recent record carries the string "true", 300 or
\* more seconds before T_max, has been aggregated and is reported drowsy.
C2_Witness ==
    /\ Returned
    /\ \E i \in DOMAIN data :
          /\ IsMostRecent(data, i)
          /\ data[i].alert = "str:true"
          /\ TMax(data) - data[i].timestamp >= 300
          /\ ReportsDrowsy(data[i].vehicleId, TRUE)

\* C3: whenever aggregation returns, a vehicle whose most recent record is not an
\* alert sample and which has a truthy-alert record is reported drowsy exactly when
\* its last truthy-alert record lies less than 300 seconds before T_max.
C3_LatchBoundary ==
    Returned =>
        \A i \in DOMAIN data :
            LET v == data[i].vehicleId IN
            IsMostRecent(data, i) /\ ~TruthyAlert(data[i].alert) /\ HasAlert(data, v)
                => ReportsDrowsy(v, TMax(data) - LastTruthyAlert(data, v) < 300)

\* C3 witness: the boundary itself has been aggregated: a vehicle whose most recent
\* record is no alert sample and whose last alert lies exactly 300 seconds before
\* T_max is reported not drowsy.
C3_Witness ==
    /\ Returned
    /\ \E i \in DOMAIN data :
          /\ IsMostRecent(data, i) /\ ~TruthyAlert(data[i].alert)
          /\ HasAlert(data, data[i].vehicleId)
          /\ TMax(data) - LastTruthyAlert(data, data[i].vehicleId) = 300
          /\ ReportsDrowsy(data[i].vehicleId, FALSE)

\* C4: whenever aggregation returns, a vehicle with no truthy-alert record anywhere
\* in the batch is reported with isDrowsy = false, whatever T_max is.
C4_NeverAlertedNeverLatched ==
    Returned =>
        \A i \in DOMAIN data :
            ~HasAlert(data, data[i].vehicleId)
                => ReportsDrowsy(data[i].vehicleId, FALSE)

Shuffles(n) == {p \in [1..n -> 1..n] : \A a, b \in 1..n : p[a] = p[b] => a = b}

\* C5: every permutation of the input array aggregates to the same output
\* (uniqueVehicles with its order, stats and history).
C5_OrderIndependent ==
    Returned =>
        \A p \in Shuffles(Len(data)) :
            processFleetData([i \in 1..Len(data) |-> data[p[i]]]) = view

\* C16: whenever aggregation returns, uniqueVehicles holds exactly one entry for
\* each vehicleId of the input and none for any other vehicle, and the entry carries
\* the speed, gps, driver and raw alert of the vehicle's most recent record.
C16_OneEntryPerVehicle ==
    Returned =>
        /\ \A k \in DOMAIN view.uniqueVehicles :
              view.uniqueVehicles[k].vehicleId \in VehicleIds(data)
        /\ \A v \in VehicleIds(data) :
              Cardinality({k \in DOMAIN view.uniqueVehicles :
                             view.uniqueVehicles[k].vehicleId = v}) = 1
        /\ \A i \in DOMAIN data :
              IsMostRecent(data, i) =>
                  \E k \in DOMAIN view.uniqueVehicles :
                      /\ view.uniqueVehicles[k].vehicleId = data[i].vehicleId
                      /\ view.uniqueVehicles[k].speed = data[i].speed
                      /\ view.uniqueVehicles[k].gps = data[i].gps
                      /\ view.uniqueVehicles[k].driver = data[i].driver
                      /\ view.uniqueVehicles[k].alert = data[i].alert

\* C16 witness: a vehicle's newest record comes first in the input array and differs
\* from an older one in speed and gps; the aggregated entry carries the newest.
C16_Witness ==
    /\ Returned
    /\ \E i, j \in DOMAIN data :
          /\ i < j
          /\ data[i].vehicleId = data[j].vehicleId
          /\ data[i].timestamp > data[j].timestamp
          /\ data[i].speed # data[j].speed
          /\ data[i].gps # data[j].gps
          /\ IsMostRecent(data, i)
          /\ \E k \in DOMAIN view.uniqueVehicles :
                /\ view.uniqueVehicles[k].vehicleId = data[i].vehicleId
                /\ view.uniqueVehicles[k].speed = data[i].speed
                /\ view.uniqueVehicles[k].gps = data[i].gps

\* position of record i of the batch in the batch ordered by ascending timestamp,
\* records of equal timestamp in the order of the input array
SortedPosition(batch, i) ==
    1 + Cardinality({j \in DOMAIN batch :
                       \/ batch[j].timestamp < batch[i].timestamp
                       \/ batch[j].timestamp = batch[i].timestamp /\ j < i})

\* C20: whenever aggregation returns, history has min(30, n) entries and its k-th
\* entry is made from the record at position n - |history| + k of the input ordered by
\* ascending timestamp: the last records of the sorted sequence, in order, none
\* skipped.
C20_HistoryIsSortedSuffix ==
    Returned =>
        LET n == Len(data)
            h == Len(view.history)
        IN  /\ h = IF n < 30 THEN n ELSE 30
            /\ \A k \in 1..h :
                  \E i \in DOMAIN data :
                      /\ SortedPosition(data, i) = n - h + k
                      /\ view.history[k].speed = data[i].speed
                      /\ view.history[k].time = data[i].timestamp % SecondsPerDay

\* C20 witness: more than 30 records arrive out of timestamp order and the first
\* history entry is the record 30 places from the end of the sorted sequence.
C20_Witness ==
    /\ Returned
    /\ Len(data) > 30
    /\ \E i, j \in DOMAIN data : i < j /\ data[i].timestamp > data[j].timestamp
    /\ Len(view.history) = 30
    /\ \E i \in DOMAIN data :
          /\ SortedPosition(data, i) = Len(data) - 29
          /\ SortedPosition(data, i) # i
          /\ view.history[1].speed = data[i].speed

\* the speed of the most recent record of v
LatestSpeed(batch, v) ==
    LET i == CHOOSE j \in DOMAIN batch : batch[j].vehicleId = v /\ IsMostRecent(batch, j)
    IN  batch[i].speed

RECURSIVE SumLatestSpeed(_, _)
SumLatestSpeed(batch, vs) ==
    IF vs = {} THEN 0
    ELSE LET v == CHOOSE w \in vs : TRUE
         IN  LatestSpeed(batch, v) + SumLatestSpeed(batch, vs \ {v})

\* C17: whenever aggregation returns, stats carries avgSpeed and totalVehicles; with
\* no vehicle in the input both are 0, otherwise avgSpeed is the mean of the
\* vehicles' latest speeds rounded to the nearest integer.
C17_AverageSpeed ==
    Returned =>
        /\ "avgSpeed" \in DOMAIN view.stats
        /\ "totalVehicles" \in DOMAIN view.stats
        /\ LET n == Cardinality(VehicleIds(data))
               sum == SumLatestSpeed(data, VehicleIds(data))
           IN  IF n = 0
               THEN view.stats.avgSpeed.digits = 0 /\ view.stats.totalVehicles = 0
               ELSE /\ 2 * n * view.stats.avgSpeed.digits > 2 * sum - n
                    /\ 2 * n * view.stats.avgSpeed.digits <= 2 * sum + n

\* C18: whenever aggregation of a non-empty input returns, totalHistoricalAlerts is
\* the number of input records whose raw alert is true, "Sleeping" or "true".
C18_HistoricalAlertsCountTruthy ==
    Returned /\ Len(data) > 0 =>
        view.stats.totalHistoricalAlerts =
            Cardinality({i \in DOMAIN data : TruthyAlert(data[i].alert)})

\* C19: whenever aggregation returns, stats.totalVehicles is the number of distinct
\* vehicleIds of the input, stats.drowsinessCount the number of entries with
\* isDrowsy = true, and 0 <= drowsinessCount <= totalVehicles.
C19_VehicleCounts ==
    Returned =>
        /\ "totalVehicles" \in DOMAIN view.stats
        /\ "drowsinessCount" \in DOMAIN view.stats
        /\ view.stats.totalVehicles = Cardinality(VehicleIds(data))
        /\ view.stats.drowsinessCount =
              Cardinality({k \in DOMAIN view.uniqueVehicles :
                             view.uniqueVehicles[k].isDrowsy})
        /\ 0 <= view.stats.drowsinessCount
        /\ view.stats.drowsinessCount <= view.stats.totalVehicles

----------------------------------------------------------------------------
(* The command log *)

InitCmd ==
    /\ data = <<>>
    /\ view = processFleetData(<<>>)
    /\ InitOther

NextCmd ==
    \/ ApiPost
    \/ ApiGet
    \/ ApiOther
    \/ ClickControl
    \/ ClearNotification
    \/ ServerTick

SpecCmd == InitCmd /\ [][NextCmd]_vars

\* a submit the dispatcher must refuse: vehicleId or command absent, or a command
\* outside the allow-list
InvalidSubmit(body) ==
    \/ body.vehicleId \in {Undefined, Null, ""}
    \/ body.command \notin {"KILL_ENGINE", "TRIGGER_ALARM", "RESET"}

WellFormedCommand(r) ==
    /\ r.vehicleId \notin {Undefined, Null, ""}
    /\ r.command \in {"KILL_ENGINE", "TRIGGER_ALARM", "RESET"}
    /\ r.status = "PENDING"

C7_ControlActionsSubmitted ==
    notification.action \in ControlActions =>
        [command |-> notification.action, vehicleId |-> notification.vehicleId]
            \in fetched

\* C8: a step that stores a command stamps it with the server's clock of that
\* step, Date.now() / 1000, whatever timestamp the request body carried.
C8_ServerTimestamp ==
    [][ Len(sirenCommands') > Len(sirenCommands) =>
          LET r == sirenCommands'[Len(sirenCommands')]
          IN  r.timestamp.sec * 1000 + r.timestamp.frac = now ]_vars

\* C8 witness: a submit whose body carried a timestamp was stored under another
\* timestamp.
C8_Witness ==
    /\ lastReq.method = "POST"
    /\ lastRes.status = 201
    /\ lastReq.body.timestamp # NoTime
    /\ \E i \in DOMAIN sirenCommands :
          /\ sirenCommands[i]._id = lastRes.json.insertedId
          /\ sirenCommands[i].timestamp # lastReq.body.timestamp

\* C9: the response of a successful submit is the stored record: it carries
\* status "PENDING" and the identifier of the record that was stored.
C9_ResponseCarriesRecord ==
    lastRes.status = 201 =>
        /\ "status" \in DOMAIN lastRes.json
        /\ lastRes.json.status = "PENDING"
        /\ "insertedId" \in DOMAIN lastRes.json
        /\ \E i \in DOMAIN sirenCommands :
              sirenCommands[i]._id = lastRes.json.insertedId

\* C10: a successful read returns at most 20 records in descending order of
\* timestamp, and as long as no submit follows, its first record is the record
\* stored last.
C10_RecentCommandsNewestFirst ==
    lastReq.method = "GET" /\ lastRes.status = 200 =>
        /\ Len(lastRes.json) <= 20
        /\ \A a, b \in DOMAIN lastRes.json :
              a < b => Millis(lastRes.json[a].timestamp) >= Millis(lastRes.json[b].timestamp)
        /\ sirenCommands # <<>> => lastRes.json[1] = sirenCommands[Len(sirenCommands)]

----------------------------------------------------------------------------
(* The POST handlers of /api/siren, /api/data and /api/updatedgps, step by step *)

InitReq ==
    /\ data = <<>>
    /\ view = processFleetData(<<>>)
    /\ InitOther

NextReq ==
    \/ Arrive
    \/ StoreConnects
    \/ HandlerAfterConnect
    \/ StoreInserts
    \/ HandlerAfterInsert
    \/ ServerTick

SpecReq == InitReq /\ [][NextReq]_vars

\* the event loop resumes a handler whose awaited promise has settled; nothing
\* makes the store settle a promise
SpecReqFair ==
    /\ InitReq
    /\ [][NextReq]_vars
    /\ WF_vars(HandlerAfterConnect)
    /\ WF_vars(HandlerAfterInsert)

\* C11: every submit or ingest request a handler has taken up is eventually
\* answered, whether or not the store ever settles what the handler awaits.
C11_EveryRequestAnswered ==
    (req.pc \in {"connecting", "inserting"}) ~> (req.pc = "responded")

PersistenceFailed(r) == r.connect = "rejected" \/ r.insert = "rejected"

Collections == <<sirenCommands, telemetry, gpsUpdates>>

\* C12: a request whose store connection or insert failed is answered 500 with a
\* body that carries only a message; no request calls insertOne more than once, a
\* failed insert was called exactly once; and a collection changes only in the step
\* in which an insert resolves, so a failed request leaves no record.
C12_PersistenceFailureIs500 ==
    [][/\ (req'.pc = "responded" /\ req.pc # "responded" /\ PersistenceFailed(req')) =>
              /\ res'.status = 500
              /\ DOMAIN res'.json = {"message"}
       /\ req'.attempts <= 1
       /\ req'.insert = "rejected" => req'.attempts = 1
       /\ req'.connect = "rejected" => req'.attempts = 0
       /\ Collections' # Collections =>
              req.insert = "pending" /\ req'.insert = "resolved"]_vars

\* C12 witness: an insert failed, the request was answered 500 after one insertOne
\* call and no collection holds a record.
C12_Witness ==
    /\ req.pc = "responded"
    /\ req.connect = "resolved"
    /\ req.insert = "rejected"
    /\ req.attempts = 1
    /\ res.status = 500
    /\ StoredCount = 0

\* an ingest the handlers must refuse: vehicleId absent or empty, gps absent, or a
\* lat or lng that Number() does not turn into a finite number
IngestInvalid(body) ==
    \/ body.vehicleId \in {Undefined, Null, ""}
    \/ body.gps.type # "object"
    \/ ToNumber(body.gps.lat).kind # "finite"
    \/ ToNumber(body.gps.lng).kind # "finite"

StoredTelemetry ==
    {telemetry[i] : i \in DOMAIN telemetry} \cup {gpsUpdates[i] : i \in DOMAIN gpsUpdates}

C14_DriverlessRecordsAggregate ==
    view.completion # "unrendered" =>
        /\ Returned
        /\ \A v \in VehicleIds(data) :
              \E k \in DOMAIN view.uniqueVehicles : view.uniqueVehicles[k].vehicleId = v

\* C15: the record an ingest stored carries the timestamp the producer supplied,
\* whatever its value, and the ingestion time only when none was supplied.
C15_TimestampFixedAtIngestion ==
    \A endpoint \in {"data", "updatedgps"} :
        req.endpoint = endpoint /\ req.insert = "resolved" =>
            LET coll == IF endpoint = "data" THEN telemetry ELSE gpsUpdates
                stored == coll[Len(coll)]
            IN  IF req.body.timestamp # NoTime
                THEN stored.doc.timestamp = req.body.timestamp
                ELSE stored.doc.timestamp.sec >= 0

\* C25: in every step every stored command stays in the log at its place with the
\* same _id, vehicleId, command, driver, timestamp and status, and every command of
\* the log has status PENDING.
C25_CommandLogAppendOnly ==
    [][/\ \A i \in DOMAIN sirenCommands :
             i \in DOMAIN sirenCommands' /\ sirenCommands'[i] = sirenCommands[i]
       /\ \A i \in DOMAIN sirenCommands' : sirenCommands'[i].status = "PENDING"]_vars

\* C25 witness: two commands are stored and the last request served was a read
\* that returned them.
C25_Witness ==
    /\ Len(sirenCommands) = 2
    /\ lastReq.method = "GET"
    /\ lastRes.status = 200
    /\ Len(lastRes.json) = 2

MaxPolls == 2
\* telemetry documents the vehicles add while the Dashboard is watched
MaxPosts == 1
\* vehicles the operator acknowledges while the Dashboard is watched
MaxAcked == 1
\* the latest instant (ms after mount) at which the operator clicks ACK
MaxAckDelay == 2000

\* .limit(100)
DataLimit == 100

\* find().sort({ timestamp: -1 }): descending by timestamp, equal timestamps in
\* any order
TelemetryDescending(coll) ==
    {[i \in DOMAIN coll |-> coll[p[i]]] :
        p \in {q \in [DOMAIN coll -> DOMAIN coll] :
                 /\ \A a, b \in DOMAIN coll : q[a] = q[b] => a = b
                 /\ \A a, b \in DOMAIN coll :
                       a < b => coll[q[a]].doc.timestamp >= coll[q[b]].doc.timestamp}}

\* the arrays GET /api/data may answer with
DataGet(coll) ==
    {[i \in DOMAIN Limit(order, DataLimit) |-> order[i].doc] :
        order \in TelemetryDescending(coll)}

\* the body of the 500 answer of GET /api/data when find() rejects
DataGetError == [message |-> "Internal Server Error"]

NoJson == [ok |-> FALSE, array |-> <<>>]
PendingPoll == [phase |-> "pending", json |-> NoJson]

\* what the vehicles post while the Dashboard is watched
PostedRecords ==
    { [vehicleId |-> "v1", timestamp |-> 1601, alert |-> "bool:false",
       speed |-> 50, gps |-> GpsDhaka, driver |-> Driver007] }

\* useState([]), fetchData() at mount, both intervals set
InitDash ==
    /\ now = 0
    /\ mounted = TRUE
    /\ polls = <<PendingPoll>>
    /\ nextPoll = PollPeriod
    /\ shownPoll = 0
    /\ data = <<>>
    /\ view = processFleetData(<<>>)
    /\ telemetry = [i \in DOMAIN DrowsyFleet |-> [_id |-> i, doc |-> DrowsyFleet[i]]]
    /\ nextId = Len(DrowsyFleet) + 1
    /\ req = NoRequest
    /\ res = NoResponse
    /\ gpsUpdates = <<>>
    /\ acknowledged = <<>>
    /\ ackedAt = [v \in Vehicles |-> -1]
    /\ nextCleanup = CleanupPeriod
    /\ sirenCommands = <<>>
    /\ lastReq = [method |-> "none", body |-> NoBody]
    /\ lastRes = [status |-> 0, json |-> [message |-> "none"]]
    /\ notification = NoNotification
    /\ fetched = {}

PollTimes == {k * PollPeriod : k \in 1..MaxPolls}

\* time passes up to the next instant, an interval that is due firing first;
\* the clock is followed while the Dashboard is mounted
DashTick ==
    /\ mounted
    /\ now < nextCleanup
    /\ now < nextPoll \/ Len(polls) >= MaxPolls
    /\ \E t \in Instants \cup PollTimes :
          /\ t > now
          /\ \A u \in Instants \cup PollTimes : u > now => t <= u
          /\ now' = t
    /\ UNCHANGED <<ackVars, aggVars, pollVars, reqVars, cmdVars>>

\* setInterval(fetchData, 1000): a new fetch, whatever became of the earlier ones
PollTimer ==
    /\ mounted
    /\ now = nextPoll
    /\ Len(polls) < MaxPolls
    /\ polls' = Append(polls, PendingPoll)
    /\ nextPoll' = nextPoll + PollPeriod
    /\ UNCHANGED <<now, mounted, shownPoll, ackVars, aggVars, reqVars, cmdVars>>

\* GET /api/data answers one outstanding fetch: the array, or the 500 body
ServerServes(n) ==
    /\ polls[n].phase = "pending"
    /\ \E find \in Outcomes :
          IF find = "resolved"
          THEN \E array \in DataGet(telemetry) :
                  polls' = [polls EXCEPT ![n] =
                              [phase |-> "served", json |-> [ok |-> TRUE, array |-> array]]]
          ELSE polls' = [polls EXCEPT ![n] = [phase |-> "served", json |-> NoJson]]
    /\ UNCHANGED <<now, mounted, nextPoll, shownPoll, ackVars, aggVars, reqVars, cmdVars>>

\* .catch((e) => console.error(e)): the request or res.json() rejected
FetchFails(n) ==
    /\ polls[n].phase = "pending"
    /\ polls' = [polls EXCEPT ![n] = [phase |-> "failed", json |-> NoJson]]
    /\ UNCHANGED <<now, mounted, nextPoll, shownPoll, ackVars, aggVars, reqVars, cmdVars>>

\* .then((json) => setData(json)), then useMemo(() => processFleetData(data)).
\* The spread [...rawData] of the 500 body throws during render, which takes the
\* Dashboard off the page; after unmount setData changes nothing.
ResponseArrives(n) ==
    /\ polls[n].phase = "served"
    /\ IF mounted
       THEN /\ polls' = [polls EXCEPT ![n] = [phase |-> "applied", json |-> NoJson]]
            /\ shownPoll' = n
            /\ data' = IF polls[n].json.ok THEN polls[n].json.array ELSE DataGetError
            /\ view' = IF polls[n].json.ok
                       THEN processFleetData(polls[n].json.array)
                       ELSE [completion |-> "TypeError"]
            /\ mounted' = polls[n].json.ok
       ELSE /\ polls' = [polls EXCEPT ![n] = [phase |-> "dropped", json |-> NoJson]]
            /\ UNCHANGED <<mounted, shownPoll, data, view>>
    /\ UNCHANGED <<now, nextPoll, ackVars, reqVars, cmdVars>>

\* the ACK button, for at most MaxAcked vehicles, within MaxAckDelay of the mount
DashClickAck(v) ==
    /\ now <= MaxAckDelay
    /\ Cardinality({w \in Vehicles \ {v} : ackedAt[w] >= 0}) < MaxAcked
    /\ ClickAck(v)

\* a vehicle's record is inserted into the collection
VehiclePosts ==
    /\ Len(telemetry) < Len(DrowsyFleet) + MaxPosts
    /\ \E r \in PostedRecords :
          telemetry' = Append(telemetry, [_id |-> nextId, doc |-> r])
    /\ nextId' = nextId + 1
    /\ UNCHANGED <<now, ackVars, aggVars, pollVars, req, res, gpsUpdates,
                   sirenCommands, lastReq, lastRes, notification, fetched>>

\* the effect's cleanup: clearInterval(interval); clearInterval(ackCleanupInterval)
Unmount ==
    /\ mounted
    /\ mounted' = FALSE
    /\ UNCHANGED <<now, polls, nextPoll, shownPoll, ackVars, aggVars, reqVars, cmdVars>>

NextDash ==
    \/ DashTick
    \/ PollTimer
    \/ \E n \in DOMAIN polls : ServerServes(n)
    \/ \E n \in DOMAIN polls : FetchFails(n)
    \/ \E n \in DOMAIN polls : ResponseArrives(n)
    \/ \E v \in Vehicles : DashClickAck(v)
    \/ CleanupTimer
    \/ VehiclePosts
    \/ Unmount

SpecDash == InitDash /\ [][NextDash]_vars

C26_ShownWindowNeverRegresses ==
    [][/\ shownPoll' >= shownPoll
       /\ ~mounted => UNCHANGED <<data, view>>]_vars


====
